---- MODULE Spec2Model ----
(***************************************************************************)
(* Model of app/dry.go: the Dry application controller.  The view-mode     *)
(* state, the snapshot fields, the prune-report cache, the output channel  *)
(* with its per-message goroutines, and Close.                             *)
(***************************************************************************)
EXTENDS Integers, Sequences, FiniteSets, TLC

\* ---------------------------------------------------------------- bounds
MaxId == 1          \* identifiers handed to the by-id handlers: 1..MaxId
MaxRec == 1         \* distinct records the daemon can return: 1..MaxRec
MaxReport == 2      \* distinct prune reports the daemon can return
MaxCount == 1       \* counts reported by the bulk removals: 0..MaxCount
MaxTasks == 2       \* appmessage goroutines that may be pending at once
MaxTime == 4        \* clock ticks the cache specification runs for
MaxCalls == 2       \* handler calls in the output channel specification
MaxSeq == 3         \* SetViewMode calls in the sequential specification
MaxThreads == 2     \* concurrent callers in the view-mode specification

\* ------------------------------------------------------ program constants
TickSeconds == 10   \* one clock tick of the model, in seconds
PruneTTL == 30      \* seconds, the expiration Prune passes to cache.Add

\* ------------------------------------------------------------ view modes
Main == "Main"
Images == "Images"
Networks == "Networks"
ImageHistoryMode == "ImageHistoryMode"
InspectImageMode == "InspectImageMode"
InspectNetworkMode == "InspectNetworkMode"
InfoMode == "InfoMode"
DiskUsage == "DiskUsage"
EventsMode == "EventsMode"
HelpMode == "HelpMode"
Monitor == "Monitor"
Nodes == "Nodes"
Services == "Services"
ServiceTasks == "ServiceTasks"
Tasks == "Tasks"

MainScreens == {Main, Images, Networks}

PureModes == {Main, DiskUsage, EventsMode, HelpMode, Images, Monitor,
              Nodes, Services, ServiceTasks, Tasks}

ViewModes == PureModes \cup {Networks, ImageHistoryMode, InspectImageMode,
                             InspectNetworkMode, InfoMode}

isMainScreen(v) == v \in MainScreens

\* ------------------------------------------------------------ sort modes
SortNetworksByID == "SortNetworksByID"
SortNetworksByName == "SortNetworksByName"
SortNetworksByDriver == "SortNetworksByDriver"
\* a value of the sort-mode type that the switch of SortNetworks does not name
OtherSortMode == "OtherSortMode"
SortModes ==
    {SortNetworksByID, SortNetworksByName, SortNetworksByDriver, OtherSortMode}

\* ------------------------------------------------- daemon gateway results
Ids == 1..MaxId
Recs == 1..MaxRec
Counts == 0..MaxCount
Reports == 1..MaxReport
Errs == {"daemon error"}
NoRec == 0          \* the zero value of a record type
NilRef == 0         \* a nil *ImageSummary / *NetworkResource
NoErr == ""

\* (value, error) as returned by a by-id daemon call
FetchResults ==
    {[ok |-> TRUE, val |-> r, err |-> NoErr] : r \in Recs}
    \cup {[ok |-> FALSE, val |-> NoRec, err |-> e] : e \in Errs}

\* (count, error) as returned by the bulk removals
CountResults ==
    {[ok |-> TRUE, val |-> c, err |-> NoErr] : c \in Counts}
    \cup {[ok |-> FALSE, val |-> 0, err |-> e] : e \in Errs}

\* (report, error) as returned by the daemon's Prune
PruneResults ==
    {[ok |-> TRUE, val |-> r, err |-> NoErr] : r \in Reports}
    \cup {[ok |-> FALSE, val |-> NoRec, err |-> e] : e \in Errs}

\* a handler that makes no daemon call
NoResult == [ok |-> TRUE, val |-> NoRec, err |-> NoErr]

\* error as returned by Kill, Rm, Rmi, RemoveNetwork
ErrResults ==
    {[ok |-> TRUE, val |-> 0, err |-> NoErr]}
    \cup {[ok |-> FALSE, val |-> 0, err |-> e] : e \in Errs}

\* (reference, error) as returned by ImageAt / NetworkAt: a record and no
\* error, or no record (a nil reference) and an error
LookupResults ==
    {[ref |-> i, err |-> NoErr] : i \in Ids}
    \cup {[ref |-> NilRef, err |-> e] : e \in Errs}

\* what the by-id daemon call returns after the lookup lk: it is only made
\* when the lookup succeeded
After(lk, results) == IF lk.err = NoErr THEN results ELSE {NoResult}

RecID(r) == r       \* the ID field of a record value

\* -------------------------------------------------------------- messages
Arg(n) == [v |-> n, short |-> FALSE]
NoArg == [v |-> 0, short |-> FALSE]
TruncateID(id) == [v |-> id, short |-> TRUE]
Msg(text, arg, err) == [text |-> text, arg |-> arg, err |-> err]

\* ----------------------------------------------------------------- state
VARIABLES
    viewMode,           \* state.viewMode
    previousViewMode,   \* state.previousViewMode
    sortNetworksMode,   \* state.sortNetworksMode
    daemonSort,         \* the sort mode last pushed to dockerDaemon
    imageHistory,       \* Dry.imageHistory
    inspectedImage,     \* Dry.inspectedImage
    inspectedNetwork,   \* Dry.inspectedNetwork
    networks,           \* Dry.networks
    info,               \* Dry.info
    cache,              \* Dry.cache, the entry under the key pruneReport
    now,                \* the clock, in ticks
    reported,           \* what the last PruneReport call returned
    tasks,              \* goroutines spawned by appmessage, not yet run
    consumer,           \* the reader of OuputChannel()
    received,           \* what the reader has received
    outputClosed,       \* close(d.output) has happened
    eventsDoneClosed,   \* close(d.dockerEventsDone) has happened
    pipeline,           \* the loop startDry starts on the daemon events
    crashed,            \* "no", or the panic that ended the process
    call,               \* the last handler call: what it did, in order
    hist,               \* the handler calls made so far
    mu,                 \* state.RWMutex: its writer and its readers
    pc,                 \* position of each concurrent caller
    thrOp,              \* the call each concurrent caller makes
    local               \* each concurrent caller's local value

vars == <<viewMode, previousViewMode, sortNetworksMode, daemonSort,
          imageHistory, inspectedImage, inspectedNetwork, networks, info,
          cache, now, reported, tasks, consumer, received, outputClosed,
          eventsDoneClosed, pipeline, crashed, call, hist, mu, pc, thrOp, local>>

Thr == 1..MaxThreads

NoEntry == [found |-> FALSE, val |-> NoRec, exp |-> 0]

\* a construction that starts no loop
NeverStarted == [state |-> "stopped", events |-> 0, refreshes |-> 0,
                 ended |-> FALSE]

\* startDry: one loop on the daemon events, running, nothing received yet
Started == [state |-> "running", events |-> 0, refreshes |-> 0,
            ended |-> FALSE]

\* what the renderer sees when it is asked to refresh
Obs(s) == [viewMode |-> s.viewMode,
           previousViewMode |-> s.previousViewMode,
           imageHistory |-> s.imageHistory,
           inspectedImage |-> s.inspectedImage,
           inspectedNetwork |-> s.inspectedNetwork,
           networks |-> s.networks,
           info |-> s.info]

\* the state a handler starts from, with an empty record of its own steps
St == [viewMode |-> viewMode,
       previousViewMode |-> previousViewMode,
       sortNetworksMode |-> sortNetworksMode,
       daemonSort |-> daemonSort,
       imageHistory |-> imageHistory,
       inspectedImage |-> inspectedImage,
       inspectedNetwork |-> inspectedNetwork,
       networks |-> networks,
       info |-> info,
       cache |-> cache,
       tasks |-> tasks,
       trace |-> <<>>,
       msgs |-> <<>>,
       seen |-> <<>>,
       panicked |-> FALSE,
       ret |-> NoErr]

\* newDry
Init ==
    /\ viewMode = Main
    /\ previousViewMode = Main
    /\ sortNetworksMode = SortNetworksByID
    /\ daemonSort = SortNetworksByID
    /\ imageHistory = NoRec
    /\ inspectedImage = NoRec
    /\ inspectedNetwork = NoRec
    /\ networks = NoRec
    /\ info = NoRec
    /\ cache = NoEntry
    /\ now = 0
    /\ reported = NoRec
    /\ tasks = <<>>
    /\ consumer = "busy"
    /\ received = <<>>
    /\ outputClosed = FALSE
    /\ eventsDoneClosed = FALSE
    /\ pipeline = Started
    /\ crashed = "no"
    /\ call = [op |-> "none", lookup |-> "none", ok |-> TRUE, val |-> NoRec,
               trace |-> <<>>, msgs |-> <<>>, seen |-> <<>>, returned |-> TRUE,
               ret |-> NoErr,
               ready |-> FALSE]
    /\ hist = <<>>
    /\ mu = [writer |-> 0, readers |-> {}]
    /\ pc = [t \in Thr |-> "idle"]
    /\ thrOp = [t \in Thr |-> [op |-> "none", arg |-> Main]]
    /\ local = [t \in Thr |-> Main]

\* ------------------------------------------------- steps inside a handler
Step(s, tag) == [s EXCEPT !.trace = Append(@, tag)]

\* SetViewMode that takes every screen as the one to go back to
SetViewModeAnyScreen(s, newViewMode) ==
    [s EXCEPT !.previousViewMode = newViewMode, !.viewMode = newViewMode]

\* SetViewMode, run by a single caller: the lock is free, the body follows
SetViewMode(s, newViewMode) ==
    [s EXCEPT !.previousViewMode =
                  IF isMainScreen(newViewMode) THEN newViewMode ELSE @,
              !.viewMode = newViewMode]

\* refreshScreen: the renderer is asked to draw the state as it is now
refreshScreen(s) ==
    [s EXCEPT !.trace = Append(@, "refresh"), !.seen = Append(@, Obs(s))]

changeViewMode(s, newViewMode) == refreshScreen(SetViewMode(s, newViewMode))

\* appmessage: spawns the goroutine that will try the send, and returns
appmessage(s, message) ==
    [s EXCEPT !.tasks = Append(@, [msg |-> message,
                                   ready |-> consumer = "waiting"]),
              !.trace = Append(@, "emit"),
              !.msgs = Append(@, message)]

actionMessage(s, cid, action) ==
    appmessage(s, Msg(action \o " container with id", cid, NoErr))

errorMessage(s, cid, action, err) ==
    appmessage(s, Msg("Error " \o action \o " container", cid, err))

\* reading a field through a nil reference panics
Panic(s) == [s EXCEPT !.panicked = TRUE]

\* ------------------------------------------------------------- the cache
\* go-cache: an entry is expired once the clock is past its expiration
cacheFound(c) == c.found /\ ~(now * TickSeconds > c.exp)

cacheSet(c, x, d) == [found |-> TRUE, val |-> x, exp |-> now * TickSeconds + d]

\* go-cache Add: stores only when no unexpired entry exists under the key,
\* otherwise returns an error (which Prune ignores) and stores nothing
cacheAdd(c, x, d) == IF cacheFound(c) THEN c ELSE cacheSet(c, x, d)

\* a Get that returns what the map holds, expired or not
cacheGetStale(c) == IF c.found THEN c.val ELSE NoRec

\* go-cache Get: nil unless an unexpired entry exists
cacheGet(c) == IF cacheFound(c) THEN c.val ELSE NoRec

\* ------------------------------------------------- fetch-then-show handlers
\* History with the screen changed before the outcome is known
HistoryShowsFirst(s, id, r) ==
    LET s1 == changeViewMode(Step(s, "gw"), ImageHistoryMode) IN
    IF r.ok
    THEN Step([s1 EXCEPT !.imageHistory = r.val], "store")
    ELSE appmessage(s1, Msg("Error getting history of image", Arg(id), r.err))

History(s, id, r) ==
    LET s1 == Step(s, "gw") IN
    IF r.ok
    THEN LET s2 == changeViewMode(s1, ImageHistoryMode) IN
         Step([s2 EXCEPT !.imageHistory = r.val], "store")
    ELSE appmessage(s1, Msg("Error getting history of image", Arg(id), r.err))

HistoryAt(s, lk, r) ==
    LET s1 == Step(s, "lookup") IN
    IF lk.err = NoErr
    THEN History(s1, lk.ref, r)
    ELSE appmessage(s1, Msg("Error getting history of image", NoArg, lk.err))

InspectImage(s, id, r) ==
    LET s1 == Step(s, "gw") IN
    IF r.ok
    THEN LET s2 == changeViewMode(s1, InspectImageMode) IN
         Step([s2 EXCEPT !.inspectedImage = r.val], "store")
    ELSE errorMessage(s1, Arg(id), "inspecting image", r.err)

\* the failure branch reads apiImage.ID through the returned reference
InspectImageAt(s, lk, r) ==
    LET s1 == Step(s, "lookup") IN
    IF lk.err = NoErr
    THEN InspectImage(s1, lk.ref, r)
    ELSE IF lk.ref = NilRef
         THEN Panic(s1)
         ELSE errorMessage(s1, Arg(lk.ref), "inspecting image", lk.err)

\* the failure branch names the ID of the returned record, not the argument
InspectNetwork(s, id, r) ==
    LET s1 == Step(s, "gw") IN
    IF r.ok
    THEN LET s2 == changeViewMode(s1, InspectNetworkMode) IN
         Step([s2 EXCEPT !.inspectedNetwork = r.val], "store")
    ELSE errorMessage(s1, Arg(RecID(r.val)), "inspecting network", r.err)

\* the failure branch reads network.ID through the returned reference
InspectNetworkAt(s, lk, r) ==
    LET s1 == Step(s, "lookup") IN
    IF lk.err = NoErr
    THEN InspectNetwork(s1, lk.ref, r)
    ELSE IF lk.ref = NilRef
         THEN Panic(s1)
         ELSE errorMessage(s1, Arg(lk.ref), "inspecting network", lk.err)

ShowNetworks(s, r) ==
    LET s1 == Step(s, "gw") IN
    IF r.ok
    THEN LET s2 == changeViewMode(s1, Networks) IN
         Step([s2 EXCEPT !.networks = r.val], "store")
    ELSE appmessage(s1, Msg("Could not retrieve network list", NoArg, r.err))

\* ShowInfo that reports the failure as the other fetches do
ShowInfoReports(s, r) ==
    LET s1 == Step(s, "gw") IN
    IF r.ok
    THEN LET s2 == changeViewMode(s1, InfoMode) IN
         Step([s2 EXCEPT !.info = r.val], "store")
    ELSE appmessage(s1, Msg("Error getting info", NoArg, r.err))

\* returns the error instead of reporting it
ShowInfo(s, r) ==
    LET s1 == Step(s, "gw") IN
    IF r.ok
    THEN LET s2 == changeViewMode(s1, InfoMode) IN
         Step([s2 EXCEPT !.info = r.val], "store")
    ELSE [s1 EXCEPT !.ret = r.err]

\* ------------------------------------------------------- pure transitions
\* ShowContainers, ShowDiskUsage, ShowDockerEvents, ShowHelp, ShowImages,
\* ShowMonitor, ShowNodes, ShowServices, ShowServiceTasks, ShowTasks
ShowMode(s, m) == changeViewMode(s, m)

\* ShowMainView that stays on the screen shown
ShowMainViewSameScreen(s) == changeViewMode(s, s.viewMode)

ShowMainView(s) == changeViewMode(s, s.previousViewMode)

\* ------------------------------------------------------- mutating actions
\* Kill without the message that announces it
KillUnannounced(s, id, r) ==
    LET s2 == Step(s, "gw") IN
    IF r.ok
    THEN actionMessage(s2, Arg(id), "killed")
    ELSE errorMessage(s2, Arg(id), "killing", r.err)

Kill(s, id, r) ==
    LET s1 == actionMessage(s, Arg(id), "Killing")
        s2 == Step(s1, "gw") IN
    IF r.ok
    THEN actionMessage(s2, Arg(id), "killed")
    ELSE errorMessage(s2, Arg(id), "killing", r.err)

Rm(s, id, r) ==
    LET shortID == TruncateID(id)
        s1 == actionMessage(s, shortID, "Removing")
        s2 == Step(s1, "gw") IN
    IF r.ok
    THEN actionMessage(s2, shortID, "Removed")
    ELSE errorMessage(s2, shortID, "removing", r.err)

\* RemoveImage that goes to the image list once the image is removed
RemoveImageShowsImages(s, id, force, r) ==
    LET shortID == TruncateID(id)
        s1 == appmessage(s, Msg("Removing image:", shortID, NoErr))
        s2 == Step(s1, "gw") IN
    IF r.ok
    THEN changeViewMode(appmessage(s2, Msg("Removed image:", shortID, NoErr)),
                        Images)
    ELSE appmessage(s2, Msg("Error removing image", shortID, r.err))

RemoveImage(s, id, force, r) ==
    LET shortID == TruncateID(id)
        s1 == appmessage(s, Msg("Removing image:", shortID, NoErr))
        s2 == Step(s1, "gw") IN
    IF r.ok
    THEN appmessage(s2, Msg("Removed image:", shortID, NoErr))
    ELSE appmessage(s2, Msg("Error removing image", shortID, r.err))

RemoveImageAt(s, lk, force, r) ==
    LET s1 == Step(s, "lookup") IN
    IF lk.err = NoErr
    THEN RemoveImage(s1, lk.ref, force, r)
    ELSE appmessage(s1, Msg("Error removing image", NoArg, lk.err))

RemoveNetwork(s, id, r) ==
    LET shortID == TruncateID(id)
        s1 == appmessage(s, Msg("Removing network:", shortID, NoErr))
        s2 == Step(s1, "gw") IN
    IF r.ok
    THEN appmessage(s2, Msg("Removed network:", shortID, NoErr))
    ELSE appmessage(s2, Msg("Error network image", shortID, r.err))

\* RemoveAllStoppedContainers that reports the outcome twice
RemoveAllStoppedContainersTwice(s, r) ==
    LET s1 == appmessage(s, Msg("Removing all stopped containers", NoArg, NoErr))
        s2 == Step(s1, "gw")
        m == IF r.ok
             THEN Msg("Removed stopped containers", Arg(r.val), NoErr)
             ELSE Msg("Error removing all stopped containers.", NoArg, r.err)
    IN appmessage(appmessage(s2, m), m)

RemoveAllStoppedContainers(s, r) ==
    LET s1 == appmessage(s, Msg("Removing all stopped containers", NoArg, NoErr))
        s2 == Step(s1, "gw") IN
    IF r.ok
    THEN appmessage(s2, Msg("Removed stopped containers", Arg(r.val), NoErr))
    ELSE appmessage(s2, Msg("Error removing all stopped containers.",
                            NoArg, r.err))

RemoveDanglingImages(s, r) ==
    LET s1 == appmessage(s, Msg("Removing dangling images", NoArg, NoErr))
        s2 == Step(s1, "gw") IN
    IF r.ok
    THEN appmessage(s2, Msg("Removed dangling images", Arg(r.val), NoErr))
    ELSE appmessage(s2, Msg("Error removing dangling images.", NoArg, r.err))

Prune(s, r) ==
    LET s1 == Step(s, "gw") IN
    IF r.ok
    THEN Step([s1 EXCEPT !.cache = cacheAdd(@, r.val, PruneTTL)], "cacheAdd")
    ELSE appmessage(s1, Msg("Error running prune.", NoArg, r.err))

PruneReport(s) == cacheGet(s.cache)

\* a rotation that goes back from by-driver to by-name
NextSortModeBackToName(m) ==
    CASE m = SortNetworksByID -> SortNetworksByName
      [] m = SortNetworksByName -> SortNetworksByDriver
      [] m = SortNetworksByDriver -> SortNetworksByName
      [] OTHER -> m

\* SortNetworks, run by a single caller
NextSortMode(m) ==
    CASE m = SortNetworksByID -> SortNetworksByName
      [] m = SortNetworksByName -> SortNetworksByDriver
      [] m = SortNetworksByDriver -> SortNetworksByID
      [] OTHER -> m

SortNetworks(s) ==
    LET s1 == [s EXCEPT !.sortNetworksMode = NextSortMode(@)]
        s2 == Step([s1 EXCEPT !.daemonSort = s1.sortNetworksMode], "gw") IN
    refreshScreen(s2)

\* ---------------------------------------------------------- handler calls
LookupTag(lk) ==
    IF lk.err = NoErr THEN "ok" ELSE IF lk.ref = NilRef THEN "nil" ELSE "rec"

\* the most appmessage calls one handler makes
MostEmits == 2

\* One call of a handler: the handler runs from St to s, and what it did is
\* kept in call.  A panic inside the
\* handler ends the process.
Commit(op, lookup, r, s) ==
    /\ crashed = "no"
    /\ Len(tasks) + MostEmits <= MaxTasks
    /\ viewMode' = s.viewMode
    /\ previousViewMode' = s.previousViewMode
    /\ sortNetworksMode' = s.sortNetworksMode
    /\ daemonSort' = s.daemonSort
    /\ imageHistory' = s.imageHistory
    /\ inspectedImage' = s.inspectedImage
    /\ inspectedNetwork' = s.inspectedNetwork
    /\ networks' = s.networks
    /\ info' = s.info
    /\ cache' = s.cache
    /\ tasks' = s.tasks
    /\ crashed' = IF s.panicked THEN "nil dereference" ELSE "no"
    /\ call' = [op |-> op, lookup |-> lookup, ok |-> r.ok, val |-> r.val,
                trace |-> s.trace, msgs |-> s.msgs, seen |-> s.seen,
                returned |-> ~s.panicked, ret |-> s.ret, ready |-> consumer = "waiting"]
    /\ UNCHANGED <<now, reported, consumer, received, outputClosed,
                   eventsDoneClosed, pipeline, mu, pc, thrOp, local>>

\* a call by the single input-handling caller, made once the goroutines of
\* its previous call have run; hist is not kept
Call(op, lookup, r, s) ==
    /\ tasks = <<>>
    /\ Commit(op, lookup, r, s)
    /\ UNCHANGED hist

CallHistory ==
    \E id \in Ids, r \in FetchResults :
        Call("History", "none", r, History(St, id, r))

CallHistoryAt ==
    \E lk \in LookupResults :
    \E r \in After(lk, FetchResults) :
        Call("HistoryAt", LookupTag(lk), r, HistoryAt(St, lk, r))

CallInspectImage ==
    \E id \in Ids, r \in FetchResults :
        Call("InspectImage", "none", r, InspectImage(St, id, r))

CallInspectImageAt ==
    \E lk \in LookupResults :
    \E r \in After(lk, FetchResults) :
        Call("InspectImageAt", LookupTag(lk), r, InspectImageAt(St, lk, r))

CallInspectNetwork ==
    \E id \in Ids, r \in FetchResults :
        Call("InspectNetwork", "none", r, InspectNetwork(St, id, r))

CallInspectNetworkAt ==
    \E lk \in LookupResults :
    \E r \in After(lk, FetchResults) :
        Call("InspectNetworkAt", LookupTag(lk), r,
               InspectNetworkAt(St, lk, r))

CallShowNetworks ==
    \E r \in FetchResults :
        Call("ShowNetworks", "none", r, ShowNetworks(St, r))

CallShowInfo ==
    \E r \in FetchResults :
        Call("ShowInfo", "none", r, ShowInfo(St, r))

CallShowMode ==
    \E m \in PureModes : Call("Show", "none", NoResult, ShowMode(St, m))

CallShowMainView == Call("ShowMainView", "none", NoResult, ShowMainView(St))

CallKill ==
    \E id \in Ids, r \in ErrResults :
        Call("Kill", "none", r, Kill(St, id, r))

CallRm ==
    \E id \in Ids, r \in ErrResults :
        Call("Rm", "none", r, Rm(St, id, r))

CallRemoveImage ==
    \E id \in Ids, force \in BOOLEAN, r \in ErrResults :
        Call("RemoveImage", "none", r, RemoveImage(St, id, force, r))

CallRemoveImageAt ==
    \E lk \in LookupResults, force \in BOOLEAN :
    \E r \in After(lk, ErrResults) :
        Call("RemoveImageAt", LookupTag(lk), r,
               RemoveImageAt(St, lk, force, r))

CallRemoveNetwork ==
    \E id \in Ids, r \in ErrResults :
        Call("RemoveNetwork", "none", r, RemoveNetwork(St, id, r))

CallRemoveAllStoppedContainers ==
    \E r \in CountResults :
        Call("RemoveAllStoppedContainers", "none", r,
               RemoveAllStoppedContainers(St, r))

CallRemoveDanglingImages ==
    \E r \in CountResults :
        Call("RemoveDanglingImages", "none", r,
               RemoveDanglingImages(St, r))

\* PruneReport: what the cache holds now, or nil
CallPruneReport ==
    /\ crashed = "no"
    /\ reported' = PruneReport(St)
    /\ UNCHANGED hist
    /\ call' = [op |-> "PruneReport", lookup |-> "none", ok |-> TRUE,
                val |-> NoRec, trace |-> <<>>, msgs |-> <<>>, seen |-> <<>>,
                returned |-> TRUE, ret |-> NoErr, ready |-> consumer = "waiting"]
    /\ UNCHANGED <<viewMode, previousViewMode, sortNetworksMode, daemonSort,
                   imageHistory, inspectedImage, inspectedNetwork, networks,
                   info, cache, now, tasks, consumer, received, outputClosed,
                   eventsDoneClosed, pipeline, crashed, mu, pc, thrOp, local>>

CallPrune ==
    \E r \in PruneResults : Call("Prune", "none", r, Prune(St, r))

CallSortNetworks == Call("SortNetworks", "none", NoResult, SortNetworks(St))

\* ------------------------------------------------------ the output channel
RemoveAt(q, i) == SubSeq(q, 1, i - 1) \o SubSeq(q, i + 1, Len(q))

\* the goroutine on a channel with a buffer: the send succeeds with no reader
RunTaskBuffered ==
    /\ crashed = "no"
    /\ \E i \in DOMAIN tasks :
        /\ tasks' = RemoveAt(tasks, i)
        /\ received' = Append(received, tasks[i])
    /\ UNCHANGED <<viewMode, previousViewMode, sortNetworksMode, daemonSort,
                   imageHistory, inspectedImage, inspectedNetwork, networks,
                   info, cache, now, reported, outputClosed, eventsDoneClosed, pipeline,
                   call, hist, mu, pc, thrOp, local, consumer, crashed>>

\* The goroutine of one appmessage call runs its select: a send on a closed
\* channel panics; otherwise the send happens when the reader is blocked in
\* a receive, and the default case drops the message when it is not.
RunTask ==
    /\ crashed = "no"
    /\ \E i \in DOMAIN tasks :
        /\ tasks' = RemoveAt(tasks, i)
        /\ IF outputClosed
           THEN /\ crashed' = "send on closed channel"
                /\ UNCHANGED <<consumer, received>>
           ELSE IF consumer = "waiting"
                THEN /\ received' = Append(received, tasks[i])
                     /\ consumer' = "busy"
                     /\ UNCHANGED crashed
                ELSE UNCHANGED <<consumer, received, crashed>>
    /\ UNCHANGED <<viewMode, previousViewMode, sortNetworksMode, daemonSort,
                   imageHistory, inspectedImage, inspectedNetwork, networks,
                   info, cache, now, reported, outputClosed, eventsDoneClosed, pipeline,
                   call, hist, mu, pc, thrOp, local>>

\* The reader of OuputChannel() blocks in a receive; on a closed channel the
\* receive returns at once and the reader stops.
ConsumerReceive ==
    /\ crashed = "no"
    /\ consumer = "busy"
    /\ consumer' = IF outputClosed THEN "done" ELSE "waiting"
    /\ UNCHANGED <<viewMode, previousViewMode, sortNetworksMode, daemonSort,
                   imageHistory, inspectedImage, inspectedNetwork, networks,
                   info, cache, now, reported, tasks, received, outputClosed,
                   eventsDoneClosed, pipeline, crashed, call, hist, mu, pc, thrOp, local>>

\* Close: closes both channels; closing a closed channel panics
Close ==
    /\ crashed = "no"
    /\ IF eventsDoneClosed
       THEN /\ crashed' = "close of closed channel"
            /\ UNCHANGED <<eventsDoneClosed, outputClosed, consumer>>
       ELSE /\ eventsDoneClosed' = TRUE
            /\ outputClosed' = TRUE
            /\ consumer' = IF consumer = "waiting" THEN "done" ELSE consumer
            /\ UNCHANGED crashed
    /\ UNCHANGED <<viewMode, previousViewMode, sortNetworksMode, daemonSort,
                   imageHistory, inspectedImage, inspectedNetwork, networks,
                   info, cache, now, reported, tasks, received, pipeline,
                   call, hist, mu, pc, thrOp, local>>

\* ------------------------------------- the controller, one caller at a time
\* the handlers that show a screen, and every by-position handler
Next ==
    \/ CallHistory \/ CallHistoryAt
    \/ CallInspectImage \/ CallInspectImageAt
    \/ CallInspectNetwork \/ CallInspectNetworkAt
    \/ CallShowNetworks \/ CallShowInfo
    \/ CallShowMode \/ CallShowMainView
    \/ CallRemoveImageAt
    \/ RunTask

Spec == Init /\ [][Next]_vars

\* the handlers that change the daemon, among changes of screen
NextMut ==
    \/ CallKill \/ CallRm
    \/ CallRemoveImage \/ CallRemoveImageAt \/ CallRemoveNetwork
    \/ CallRemoveAllStoppedContainers \/ CallRemoveDanglingImages
    \/ CallPrune \/ CallSortNetworks \/ CallShowMode
    \/ CallShowNetworks
    \/ RunTask

SpecMut == Init /\ [][NextMut]_vars

\* ------------------------------------------------ the prune-report cache
\* the clock advances
Tick ==
    /\ crashed = "no"
    /\ now < MaxTime
    /\ now' = now + 1
    /\ UNCHANGED <<viewMode, previousViewMode, sortNetworksMode, daemonSort,
                   imageHistory, inspectedImage, inspectedNetwork, networks,
                   info, cache, reported, tasks, consumer, received,
                   outputClosed, eventsDoneClosed, pipeline, crashed, call, hist,
                   mu, pc, thrOp, local>>

\* the janitor of the cache deletes the entries that have expired
DeleteExpired ==
    /\ crashed = "no"
    /\ cache.found
    /\ ~cacheFound(cache)
    /\ cache' = NoEntry
    /\ UNCHANGED <<viewMode, previousViewMode, sortNetworksMode, daemonSort,
                   imageHistory, inspectedImage, inspectedNetwork, networks,
                   info, now, reported, tasks, consumer, received,
                   outputClosed, eventsDoneClosed, pipeline, crashed, call, hist,
                   mu, pc, thrOp, local>>

\* Prune, with hist keeping the last successful one, when it ran, and when
\* the entry the cache holds after it was written
CachePrune ==
    \E r \in PruneResults :
        /\ Commit("Prune", "none", r, Prune(St, r))
        /\ hist' = IF r.ok
                   THEN <<[val |-> r.val, at |-> now,
                           wrote |-> IF cache' # cache THEN now
                                     ELSE hist[1].wrote]>>
                   ELSE hist

NextCache == CachePrune \/ CallPruneReport \/ Tick \/ DeleteExpired \/ RunTask

SpecCache == Init /\ [][NextCache]_vars

\* --------------------------------- handlers, the reader and Close together
\* hist keeps the names of the handlers called, at most MaxCalls of them
OutboxRemoveAllStoppedContainers ==
    /\ Len(hist) < MaxCalls
    /\ \E r \in CountResults :
          Commit("RemoveAllStoppedContainers", "none", r,
                 RemoveAllStoppedContainers(St, r))
    /\ hist' = Append(hist, "RemoveAllStoppedContainers")

OutboxShowNetworks ==
    /\ Len(hist) < MaxCalls
    /\ \E r \in FetchResults :
          Commit("ShowNetworks", "none", r, ShowNetworks(St, r))
    /\ hist' = Append(hist, "ShowNetworks")

NextOutbox ==
    \/ OutboxRemoveAllStoppedContainers
    \/ OutboxShowNetworks
    \/ RunTask
    \/ ConsumerReceive
    \/ Close

SpecOutbox == Init /\ [][NextOutbox]_vars

\* ------------------------------------------- SetViewMode calls, in sequence
\* hist keeps the arguments, at most MaxSeq of them
SeqSetViewMode ==
    \E m \in ViewModes :
        /\ Len(hist) < MaxSeq
        /\ Commit("SetViewMode", "none", NoResult, SetViewMode(St, m))
        /\ hist' = Append(hist, m)

NextSeq == SeqSetViewMode

SpecSeq == Init /\ [][NextSeq]_vars

\* ------------------------------------------------- callers that run at once
\* Each caller makes one call, step by step: SetViewMode(m), ShowMainView()
\* or the read viewMode().
ConcModes == {Main, Images, HelpMode}

ThreadOps ==
    {[op |-> "SetViewMode", arg |-> m] : m \in ConcModes}
    \cup {[op |-> "ShowMainView", arg |-> Main],
          [op |-> "viewMode", arg |-> Main]}

ThreadFrame ==
    UNCHANGED <<sortNetworksMode, daemonSort, imageHistory, inspectedImage,
                inspectedNetwork, networks, info, cache, now, reported, tasks,
                consumer, received, outputClosed, eventsDoneClosed, pipeline, crashed,
                call, hist>>

\* the argument SetViewMode runs with: its own, or the one ShowMainView read
ArgOf(t) == IF thrOp[t].op = "ShowMainView" THEN local[t] ELSE thrOp[t].arg

\* a caller enters its call
Enter(t) ==
    /\ pc[t] = "idle"
    /\ \E o \in ThreadOps :
        /\ thrOp' = [thrOp EXCEPT ![t] = o]
        /\ pc' = [pc EXCEPT ![t] =
                     CASE o.op = "SetViewMode" -> "lock"
                       [] o.op = "ShowMainView" -> "read"
                       [] o.op = "viewMode" -> "rlock"]
    /\ UNCHANGED <<viewMode, previousViewMode, mu, local>>
    /\ ThreadFrame

\* ShowMainView evaluates d.state.previousViewMode, holding no lock
ReadPrevious(t) ==
    /\ pc[t] = "read"
    /\ local' = [local EXCEPT ![t] = previousViewMode]
    /\ pc' = [pc EXCEPT ![t] = "lock"]
    /\ UNCHANGED <<viewMode, previousViewMode, mu, thrOp>>
    /\ ThreadFrame

\* d.state.Lock()
Lock(t) ==
    /\ pc[t] = "lock"
    /\ mu.writer = 0
    /\ mu.readers = {}
    /\ mu' = [mu EXCEPT !.writer = t]
    /\ pc' = [pc EXCEPT ![t] = "setprev"]
    /\ UNCHANGED <<viewMode, previousViewMode, thrOp, local>>
    /\ ThreadFrame

\* a SetViewMode that never assigns previousViewMode
WritePreviousNever(t) ==
    /\ pc[t] = "setprev"
    /\ pc' = [pc EXCEPT ![t] = "setvm"]
    /\ UNCHANGED <<viewMode, previousViewMode, mu, thrOp, local>>
    /\ ThreadFrame

\* if newViewMode.isMainScreen() { d.state.previousViewMode = newViewMode }
WritePrevious(t) ==
    /\ pc[t] = "setprev"
    /\ previousViewMode' =
          IF isMainScreen(ArgOf(t)) THEN ArgOf(t) ELSE previousViewMode
    /\ pc' = [pc EXCEPT ![t] = "setvm"]
    /\ UNCHANGED <<viewMode, mu, thrOp, local>>
    /\ ThreadFrame

\* d.state.viewMode = newViewMode, and the deferred Unlock
WriteViewMode(t) ==
    /\ pc[t] = "setvm"
    /\ viewMode' = ArgOf(t)
    /\ mu' = [mu EXCEPT !.writer = 0]
    /\ pc' = [pc EXCEPT ![t] =
                 IF thrOp[t].op = "ShowMainView" THEN "refresh" ELSE "done"]
    /\ UNCHANGED <<previousViewMode, thrOp, local>>
    /\ ThreadFrame

\* refreshScreen(), at the end of changeViewMode
Refresh(t) ==
    /\ pc[t] = "refresh"
    /\ pc' = [pc EXCEPT ![t] = "done"]
    /\ UNCHANGED <<viewMode, previousViewMode, mu, thrOp, local>>
    /\ ThreadFrame

\* d.state.RLock()
RLock(t) ==
    /\ pc[t] = "rlock"
    /\ mu.writer = 0
    /\ mu' = [mu EXCEPT !.readers = @ \cup {t}]
    /\ pc' = [pc EXCEPT ![t] = "rread"]
    /\ UNCHANGED <<viewMode, previousViewMode, thrOp, local>>
    /\ ThreadFrame

\* return d.state.viewMode, and the deferred RUnlock
ReadViewMode(t) ==
    /\ pc[t] = "rread"
    /\ local' = [local EXCEPT ![t] = viewMode]
    /\ mu' = [mu EXCEPT !.readers = @ \ {t}]
    /\ pc' = [pc EXCEPT ![t] = "done"]
    /\ UNCHANGED <<viewMode, previousViewMode, thrOp>>
    /\ ThreadFrame

NextView ==
    \E t \in Thr :
        \/ Enter(t) \/ ReadPrevious(t) \/ Lock(t) \/ WritePrevious(t)
        \/ WriteViewMode(t) \/ Refresh(t) \/ RLock(t) \/ ReadViewMode(t)

SpecView == Init /\ [][NextView]_vars

\* ================================================================ claims
Count(q, tag) == Cardinality({i \in DOMAIN q : q[i] = tag})

IsEmitOrGw(x) == x \in {"emit", "gw"}

\* the emits and daemon calls of a handler, in the order it made them
Protocol(q) == SelectSeq(q, IsEmitOrGw)

FetchById == {"History", "InspectImage", "InspectNetwork", "ShowNetworks"}

FetchByPosition == {"HistoryAt", "InspectImageAt", "InspectNetworkAt"}

ByPosition == FetchByPosition \cup {"RemoveImageAt"}

\* the by-id daemon call of a fetch-then-show handler was made
Fetched(c) ==
    \/ c.op \in FetchById
    \/ c.op \in FetchByPosition /\ c.lookup = "ok"

SnapshotFields ==
    <<imageHistory, inspectedImage, inspectedNetwork, networks, info>>

\* C1: when the daemon call of History, InspectImage, InspectNetwork or
\* ShowNetworks fails, the handler returns normally, viewMode and
\* previousViewMode keep their values, no snapshot field is modified, no
\* refresh is triggered and exactly one message is emitted.
C1_FetchFailureAbsorbed ==
    [][(Fetched(call') /\ ~call'.ok) =>
          /\ UNCHANGED <<viewMode, previousViewMode>>
          /\ UNCHANGED SnapshotFields
          /\ call'.returned
          /\ crashed' = "no"
          /\ Count(call'.trace, "refresh") = 0
          /\ Count(call'.trace, "store") = 0
          /\ Count(call'.trace, "emit") = 1
          /\ Len(call'.msgs) = 1
          /\ call'.msgs[1].err \in Errs]_vars

\* a failed InspectNetwork after a network list was shown
C1_Witness ==
    /\ call.op = "InspectNetwork"
    /\ ~call.ok
    /\ viewMode = Networks
    /\ networks # NoRec
    /\ Len(tasks) = 1

\* C2: when the position lookup of HistoryAt, InspectImageAt,
\* InspectNetworkAt or RemoveImageAt fails with a nil record, the by-id step
\* is not invoked, exactly one failure message is emitted, the handler
\* returns normally without a crash, and viewMode is unchanged.
C2_LookupFailureAbsorbed ==
    [][(call'.op \in ByPosition /\ call'.lookup = "nil") =>
          /\ Count(call'.trace, "gw") = 0
          /\ Count(call'.trace, "emit") = 1
          /\ call'.returned
          /\ crashed' = "no"
          /\ UNCHANGED viewMode]_vars

\* the snapshot field that backs a screen, as the renderer saw it
SnapOf(o) ==
    CASE o.viewMode = ImageHistoryMode -> o.imageHistory
      [] o.viewMode = InspectImageMode -> o.inspectedImage
      [] o.viewMode = InspectNetworkMode -> o.inspectedNetwork
      [] o.viewMode = Networks -> o.networks
      [] o.viewMode = InfoMode -> o.info
      [] OTHER -> NoRec

\* C7: in a successful History, InspectImage, InspectNetwork, ShowNetworks
\* or ShowInfo, when refreshScreen is invoked the snapshot field of the new
\* view mode already holds the record this daemon call returned.
C7_StoreBeforeRefresh ==
    ((Fetched(call) \/ call.op = "ShowInfo") /\ call.ok) =>
        /\ Len(call.seen) = 1
        /\ SnapOf(call.seen[1]) = call.val

MutatingOps == {"Kill", "Rm", "RemoveImage", "RemoveNetwork",
                "RemoveAllStoppedContainers", "RemoveDanglingImages", "Prune"}

\* a start message, the daemon call, then the message for its outcome
TwoEmits(c) ==
    /\ Protocol(c.trace) = <<"emit", "gw", "emit">>
    /\ Len(c.msgs) = 2
    /\ c.msgs[1].err = NoErr
    /\ c.ok <=> c.msgs[2].err = NoErr

\* C9: every mutating action (Kill, Rm, RemoveImage, RemoveNetwork,
\* RemoveAllStoppedContainers, RemoveDanglingImages, Prune) emits a start
\* message, invokes the daemon exactly once, then emits exactly one message,
\* for completion or for failure.
C9_TwoEmitsAroundGateway ==
    call.op \in MutatingOps => TwoEmits(call)

\* C9 as amended: the six actions other than Prune follow that protocol;
\* Prune emits no start message, invokes the daemon exactly once, and emits
\* exactly one message, the failure message, only when the daemon fails.
C9_TwoEmitsExceptPrune ==
    /\ call.op \in MutatingOps \ {"Prune"} => TwoEmits(call)
    /\ call.op = "Prune" =>
          /\ Protocol(call.trace) = IF call.ok THEN <<"gw">>
                                               ELSE <<"gw", "emit">>
          /\ Len(call.msgs) = IF call.ok THEN 0 ELSE 1
          /\ ~call.ok => call.msgs[1].err \in Errs

\* a failed Kill whose two messages are still to be sent
C9_Witness ==
    /\ call.op = "Kill"
    /\ ~call.ok
    /\ Len(tasks) = 2
    /\ tasks[2].msg.err \in Errs

\* C3: a PruneReport issued after a successful Prune and less than 30 s
\* after it returns the report of that most recent successful Prune, also
\* when an earlier Prune's entry was still unexpired at that Prune.
C3_ReportOfLatestPrune ==
    (/\ call.op = "PruneReport"
     /\ hist # <<>>
     /\ (now - hist[1].at) * TickSeconds < PruneTTL)
        => reported = hist[1].val

\* C4: no send is attempted on the output channel after Close closed it.
C4_NoSendAfterClose == crashed # "send on closed channel"

Msgs(q) == [i \in DOMAIN q |-> q[i].msg]

OneCallOfRemoveAll == hist = <<"RemoveAllStoppedContainers">>

\* C5: one call of RemoveAllStoppedContainers, with a reader that receives
\* repeatedly, results in exactly two messages received, the 'Removing all
\* stopped containers' message first and the outcome message second.
C5_BothReceivedInOrder ==
    (/\ OneCallOfRemoveAll
     /\ call.ready
     /\ tasks = <<>>
     /\ ~outputClosed
     /\ crashed = "no")
        => Msgs(received) = call.msgs

\* C5 as amended: one call of RemoveAllStoppedContainers emits exactly two
\* messages, the 'Removing all stopped containers' message first and the
\* outcome message second (the count removed, or the failure reason); the
\* reader receives each of the two at most once and nothing else: zero, one
\* or two messages, in either order.
C5_TwoEmittedEachAtMostOnce ==
    OneCallOfRemoveAll =>
        /\ Len(call.msgs) = 2
        /\ call.msgs[1] = Msg("Removing all stopped containers", NoArg, NoErr)
        /\ call.msgs[2] =
              IF call.ok
              THEN Msg("Removed stopped containers", Arg(call.val), NoErr)
              ELSE Msg("Error removing all stopped containers.", NoArg,
                       CHOOSE e \in Errs : TRUE)
        /\ Len(received) + Len(tasks) <= 2
        /\ \A i \in DOMAIN received :
              /\ received[i].msg \in {call.msgs[1], call.msgs[2]}
              /\ \A j \in DOMAIN received :
                    i # j => received[i].msg # received[j].msg
        /\ \A i \in DOMAIN received, j \in DOMAIN tasks :
              received[i].msg # tasks[j].msg

\* both messages received, the outcome before the start message
C5_Witness ==
    /\ OneCallOfRemoveAll
    /\ Len(received) = 2
    /\ received[1].msg = call.msgs[2]
    /\ received[2].msg = call.msgs[1]

\* C6: appmessage never blocks the handler, and a message emitted while no
\* reader is ready is lost for good: a reader that starts receiving only
\* after the appmessage call returned never receives it.
C6_LostUnlessReadyAtReturn ==
    \A i \in DOMAIN received : received[i].ready

\* C6 as amended: appmessage never blocks the handler (it returns with its
\* goroutine still pending, whatever the reader does); the message is
\* delivered exactly when the reader is blocked in a receive at the moment
\* that goroutine runs its send, and is dropped for good otherwise: each
\* goroutine makes one attempt, and nothing else delivers a message.
C6_LostUnlessReadyAtSend ==
    [][/\ Len(tasks') < Len(tasks) =>
            \E i \in DOMAIN tasks :
                /\ tasks' = RemoveAt(tasks, i)
                /\ IF consumer = "waiting" /\ ~outputClosed
                   THEN received' = Append(received, tasks[i])
                   ELSE received' = received
       /\ received' # received =>
            Len(tasks') < Len(tasks) /\ consumer = "waiting"
       /\ Len(tasks') > Len(tasks) =>
            /\ received' = received
            /\ consumer' = consumer
            /\ \A i \in DOMAIN tasks : tasks'[i] = tasks[i]]_vars

\* a message emitted while the reader was busy, received by the reader
\* when it started receiving afterwards
C6_Witness ==
    /\ Len(received) = 1
    /\ ~received[1].ready
    /\ received[1].msg = call.msgs[1]
    /\ consumer = "busy"

RECURSIVE LastMain(_)
\* the most recent main screen among the arguments, Main when there is none
LastMain(q) ==
    IF q = <<>> THEN Main
    ELSE IF q[Len(q)] \in {"Main", "Images", "Networks"} THEN q[Len(q)]
    ELSE LastMain(SubSeq(q, 1, Len(q) - 1))

\* C10: after any sequence of SetViewMode calls from the initial state, the
\* view mode is the last argument, and previousViewMode is the most recent
\* argument that is a main screen, or Main when there was none.
C10_LastArgumentAndLastMain ==
    /\ hist # <<>> => viewMode = hist[Len(hist)]
    /\ previousViewMode = LastMain(hist)

\* a main screen, then two screens that are not
C10_Witness ==
    /\ Len(hist) = 3
    /\ hist[1] = Images
    /\ hist[2] = HelpMode
    /\ hist[3] = InspectImageMode
    /\ previousViewMode = Images

\* the pair (viewMode, previousViewMode) after one call made alone
AfterCall(pair, o) ==
    LET arg == IF o.op = "ShowMainView" THEN pair[2] ELSE o.arg IN
    IF o.op = "viewMode" THEN pair
    ELSE <<arg, IF arg \in {"Main", "Images", "Networks"} THEN arg ELSE pair[2]>>

RECURSIVE SequentialOutcomes(_, _)
\* the pairs that the calls of the callers in T give in some order
SequentialOutcomes(pair, T) ==
    IF T = {} THEN {pair}
    ELSE UNION {SequentialOutcomes(AfterCall(pair, thrOp[t]), T \ {t}) : t \in T}

\* C8: for every interleaving of concurrent SetViewMode and ShowMainView
\* calls, the final (viewMode, previousViewMode) is the pair some sequential
\* order of those calls produces.
C8_Linearizable ==
    (\A t \in Thr : pc[t] = "done") =>
        <<viewMode, previousViewMode>> \in SequentialOutcomes(<<Main, Main>>, Thr)


\* ------------------------------------------ every kind of command, mixed
\* pure transitions, fetches that succeed or fail, handlers that change the
\* daemon, and the way back to the main screen
NextNav ==
    \/ CallShowMode \/ CallShowMainView
    \/ CallShowNetworks \/ CallHistory \/ CallShowInfo
    \/ CallKill \/ CallPrune
    \/ RunTask

SpecNav == Init /\ [][NextNav]_vars

\* C11: previousViewMode is the container list, the image list or the
\* network list in every reachable state, and so is viewMode in the state
\* a ShowMainView() call leaves, whatever calls came before it.
C11_BackToAMainScreen ==
    /\ previousViewMode \in {"Main", "Images", "Networks"}
    /\ (call.op = "ShowMainView" /\ call.returned)
           => /\ viewMode \in {"Main", "Images", "Networks"}
              /\ viewMode = previousViewMode

\* ShowMainView has come back to the network list, from a screen that is
\* not a main one, with a fetched list kept and a Prune behind it
C11_Witness ==
    /\ call.op = "ShowMainView"
    /\ viewMode = "Networks"
    /\ call.seen = <<Obs(St)>>
    /\ networks # NoRec
    /\ imageHistory # NoRec
    /\ cache.found

\* ------------------------------------------- SortNetworks calls, in sequence
\* the most SortNetworks calls of one run
MaxSort == 3

\* newDry, with state.sortNetworksMode taken from the whole sort-mode type
\* and pushed to the daemon; hist starts with it
InitSort ==
    /\ viewMode = Main
    /\ previousViewMode = Main
    /\ sortNetworksMode \in SortModes
    /\ daemonSort = sortNetworksMode
    /\ imageHistory = NoRec
    /\ inspectedImage = NoRec
    /\ inspectedNetwork = NoRec
    /\ networks = NoRec
    /\ info = NoRec
    /\ cache = NoEntry
    /\ now = 0
    /\ reported = NoRec
    /\ tasks = <<>>
    /\ consumer = "busy"
    /\ received = <<>>
    /\ outputClosed = FALSE
    /\ eventsDoneClosed = FALSE
    /\ pipeline = Started
    /\ crashed = "no"
    /\ call = [op |-> "none", lookup |-> "none", ok |-> TRUE, val |-> NoRec,
               trace |-> <<>>, msgs |-> <<>>, seen |-> <<>>, returned |-> TRUE,
               ret |-> NoErr, ready |-> FALSE]
    /\ hist = <<sortNetworksMode>>
    /\ mu = [writer |-> 0, readers |-> {}]
    /\ pc = [t \in Thr |-> "idle"]
    /\ thrOp = [t \in Thr |-> [op |-> "none", arg |-> Main]]
    /\ local = [t \in Thr |-> Main]

\* SortNetworks, with hist keeping the mode each call leaves
SeqSortNetworks ==
    /\ Len(hist) <= MaxSort
    /\ Commit("SortNetworks", "none", NoResult, SortNetworks(St))
    /\ hist' = Append(hist, sortNetworksMode')

NextSortSeq == SeqSortNetworks \/ CallShowMode

SpecSortSeq == InitSort /\ [][NextSortSeq]_vars

\* C12: each SortNetworks call takes by-ID to by-name, by-name to by-driver
\* and by-driver to by-ID, three calls in a row come back to the mode they
\* started from, and a mode that is none of the three stays as it is.
C12_RotatesThroughTheCycle ==
    /\ sortNetworksMode = hist[Len(hist)]
    /\ \A i \in 1..(Len(hist) - 1) :
          hist[i + 1] =
             IF hist[i] = "SortNetworksByID" THEN "SortNetworksByName"
             ELSE IF hist[i] = "SortNetworksByName" THEN "SortNetworksByDriver"
             ELSE IF hist[i] = "SortNetworksByDriver" THEN "SortNetworksByID"
             ELSE hist[i]
    /\ \A i \in 1..(Len(hist) - 3) : hist[i + 3] = hist[i]

\* three calls have come back to by-name
C12_Witness ==
    /\ call.op = "SortNetworks"
    /\ hist = <<"SortNetworksByName", "SortNetworksByDriver",
                "SortNetworksByID", "SortNetworksByName">>
    /\ sortNetworksMode = "SortNetworksByName"

\* a step that is a PruneReport call: the clock, the cache and the
\* goroutines are as they were
PruneReportStep ==
    /\ call'.op = "PruneReport"
    /\ UNCHANGED <<now, cache, tasks, hist>>

\* the seconds since the entry the cache holds was written
EntryAge == (now - hist[1].wrote) * TickSeconds

\* C13: PruneReport returns nil when no Prune has succeeded so far, and
\* when 30 s or more have passed since the entry the cache holds was written.
C13_NilFromThirtySeconds ==
    [][PruneReportStep =>
          /\ hist = <<>> => reported' = NoRec
          /\ (hist # <<>> /\ EntryAge >= 30) => reported' = NoRec]_vars

\* C13, amended: PruneReport returns nil when no Prune has succeeded so far,
\* and when more than 30 s have passed since the entry the cache holds was
\* written; what it returns otherwise is the report that entry holds.
C13_NilPastThirtySeconds ==
    [][PruneReportStep =>
          /\ hist = <<>> => reported' = NoRec
          /\ (hist # <<>> /\ EntryAge > 30) => reported' = NoRec
          /\ reported' # NoRec => (cache.found /\ reported' = cache.val)]_vars

\* PruneReport has returned nil although the cache still holds the entry,
\* written more than 30 s before, which the janitor has not deleted yet
C13_Witness ==
    /\ call.op = "PruneReport"
    /\ reported = NoRec
    /\ cache.found
    /\ hist # <<>>
    /\ EntryAge > 30

\* C14: a ShowInfo call whose host-info fetch fails returns the failure,
\* emits nothing, asks for no refresh and leaves viewMode, previousViewMode
\* and info as they were; one whose fetch succeeds returns no error, with
\* viewMode = InfoMode and info holding the record fetched.
C14_ShowInfoReturnsTheFailure ==
    [][/\ (call'.op = "ShowInfo" /\ ~call'.ok)
             => /\ call'.returned
                /\ call'.ret \in Errs
                /\ call'.trace = <<"gw">>
                /\ call'.msgs = <<>>
                /\ tasks' = tasks
                /\ UNCHANGED <<viewMode, previousViewMode, info>>
       /\ (call'.op = "ShowInfo" /\ call'.ok)
             => /\ call'.returned
                /\ call'.ret = ""
                /\ call'.msgs = <<>>
                /\ viewMode' = "InfoMode"
                /\ info' = call'.val
                /\ info' \in Recs]_vars

\* ShowInfo has failed on the image list, with the record of an earlier
\* ShowInfo kept
C14_Witness ==
    /\ call.op = "ShowInfo"
    /\ ~call.ok
    /\ call.ret \in Errs
    /\ viewMode = "Images"
    /\ info \in Recs

\* ------------------------------------------- SortNetworks calls, at once
\* Each caller makes one SortNetworks call, step by step.  The lock it
\* holds is the shared one, so the callers are inside the body together.
SortFrame ==
    UNCHANGED <<viewMode, previousViewMode, imageHistory, inspectedImage,
                inspectedNetwork, networks, info, cache, now, reported, tasks,
                consumer, received, outputClosed, eventsDoneClosed, pipeline,
                crashed, call, hist>>

\* a caller enters SortNetworks
SortEnter(t) ==
    /\ pc[t] = "idle"
    /\ thrOp' = [thrOp EXCEPT ![t] = [op |-> "SortNetworks", arg |-> Main]]
    /\ pc' = [pc EXCEPT ![t] = "sortrlock"]
    /\ UNCHANGED <<sortNetworksMode, daemonSort, mu, local>>
    /\ SortFrame

\* d.state.RLock()
SortRLock(t) ==
    /\ pc[t] = "sortrlock"
    /\ mu.writer = 0
    /\ mu' = [mu EXCEPT !.readers = @ \cup {t}]
    /\ pc' = [pc EXCEPT ![t] = "sortswitch"]
    /\ UNCHANGED <<sortNetworksMode, daemonSort, thrOp, local>>
    /\ SortFrame

\* switch d.state.sortNetworksMode: the value is read
SortSwitch(t) ==
    /\ pc[t] = "sortswitch"
    /\ local' = [local EXCEPT ![t] = sortNetworksMode]
    /\ pc' = [pc EXCEPT ![t] = "sortassign"]
    /\ UNCHANGED <<sortNetworksMode, daemonSort, mu, thrOp>>
    /\ SortFrame

\* the assignment of the case taken; the default case assigns nothing
SortAssign(t) ==
    /\ pc[t] = "sortassign"
    /\ sortNetworksMode' =
          IF local[t] \in {SortNetworksByID, SortNetworksByName,
                           SortNetworksByDriver}
          THEN NextSortMode(local[t])
          ELSE sortNetworksMode
    /\ pc' = [pc EXCEPT ![t] = "sortarg"]
    /\ UNCHANGED <<daemonSort, mu, thrOp, local>>
    /\ SortFrame

\* d.state.sortNetworksMode is read again, as the argument of the daemon call
SortArg(t) ==
    /\ pc[t] = "sortarg"
    /\ local' = [local EXCEPT ![t] = sortNetworksMode]
    /\ pc' = [pc EXCEPT ![t] = "sortpush"]
    /\ UNCHANGED <<sortNetworksMode, daemonSort, mu, thrOp>>
    /\ SortFrame

\* d.dockerDaemon.SortNetworks(...) applies the argument
SortPush(t) ==
    /\ pc[t] = "sortpush"
    /\ daemonSort' = local[t]
    /\ pc' = [pc EXCEPT ![t] = "sortrefresh"]
    /\ UNCHANGED <<sortNetworksMode, mu, thrOp, local>>
    /\ SortFrame

\* refreshScreen(), and the deferred RUnlock
SortRefresh(t) ==
    /\ pc[t] = "sortrefresh"
    /\ mu' = [mu EXCEPT !.readers = @ \ {t}]
    /\ pc' = [pc EXCEPT ![t] = "done"]
    /\ UNCHANGED <<sortNetworksMode, daemonSort, thrOp, local>>
    /\ SortFrame

NextSortConc ==
    \E t \in Thr :
        \/ SortEnter(t) \/ SortRLock(t) \/ SortSwitch(t) \/ SortAssign(t)
        \/ SortArg(t) \/ SortPush(t) \/ SortRefresh(t)

SpecSortConc == InitSort /\ [][NextSortConc]_vars

\* no SortNetworks call is in progress
SortQuiescent == \A t \in Thr : pc[t] \in {"idle", "done"}

\* the SortNetworks calls that have completed
SortCompleted == Cardinality({t \in Thr : pc[t] = "done"})

RECURSIVE Advanced(_, _)
\* the mode k steps along the cycle from m
Advanced(m, k) ==
    IF k = 0 THEN m
    ELSE Advanced(IF m = "SortNetworksByID" THEN "SortNetworksByName"
                  ELSE IF m = "SortNetworksByName" THEN "SortNetworksByDriver"
                  ELSE IF m = "SortNetworksByDriver" THEN "SortNetworksByID"
                  ELSE m, k - 1)

\* C15: once k concurrent SortNetworks calls have all completed,
\* sortNetworksMode is the starting mode advanced by k steps of the cycle.
C15_NoLostRotation ==
    SortQuiescent => sortNetworksMode = Advanced(hist[1], SortCompleted)

\* C16: whenever no SortNetworks call is in progress, the mode last applied
\* to the daemon is state.sortNetworksMode.
C16_DaemonSortInStep == SortQuiescent => daemonSort = sortNetworksMode

\* C17: Kill, Rm, RemoveImage, RemoveImageAt, RemoveNetwork,
\* RemoveAllStoppedContainers and RemoveDanglingImages, whether the daemon
\* call succeeds or fails, and a Prune whose daemon call fails, leave
\* viewMode, previousViewMode, sortNetworksMode, every snapshot field and the
\* cache as they were and ask for no refresh.
C17_MutatingActionsKeepTheDashboard ==
    [][(\/ call'.op \in {"Kill", "Rm", "RemoveImage", "RemoveImageAt",
                         "RemoveNetwork", "RemoveAllStoppedContainers",
                         "RemoveDanglingImages"}
        \/ (call'.op = "Prune" /\ ~call'.ok))
          => /\ UNCHANGED <<viewMode, previousViewMode, sortNetworksMode,
                            daemonSort, imageHistory, inspectedImage,
                            inspectedNetwork, networks, info, cache>>
             /\ Count(call'.trace, "refresh") = 0
             /\ call'.seen = <<>>
             /\ Count(call'.trace, "store") = 0
             /\ Count(call'.trace, "cacheAdd") = 0]_vars

\* a Prune has failed on the network list, with a list fetched, the sort
\* mode rotated and the report of an earlier Prune in the cache
C17_Witness ==
    /\ call.op = "Prune"
    /\ ~call.ok
    /\ cache.found
    /\ cache.val \in Reports
    /\ viewMode = "Networks"
    /\ networks \in Recs
    /\ sortNetworksMode = "SortNetworksByName"

\* C18: in every reachable state, whatever the interleaving of the callers,
\* a viewMode that is a main screen is also the previousViewMode.
C18_MainScreenIsItsOwnPrevious ==
    viewMode \in {"Main", "Images", "Networks"} => previousViewMode = viewMode

\* C18, amended: the same, in every state in which no caller is inside the
\* exclusive section of SetViewMode.
C18_MainScreenIsItsOwnPreviousUnlocked ==
    mu.writer = 0 =>
        (viewMode \in {"Main", "Images", "Networks"}
            => previousViewMode = viewMode)

\* a SetViewMode(Images) and a ShowMainView have run at once and both have
\* returned, leaving the image list
C18_Witness ==
    /\ \A t \in Thr : pc[t] = "done"
    /\ \E t \in Thr : thrOp[t].op = "ShowMainView"
    /\ \E t \in Thr : thrOp[t] = [op |-> "SetViewMode", arg |-> "Images"]
    /\ mu.writer = 0
    /\ viewMode = "Images"
    /\ previousViewMode = "Images"

\* --------------------------------------- the loop on the daemon events
\* the most events the daemon sends in one run
MaxEvents == 2

PipelineFrame ==
    UNCHANGED <<viewMode, previousViewMode, sortNetworksMode, daemonSort,
                imageHistory, inspectedImage, inspectedNetwork, networks,
                info, cache, now, reported, tasks, consumer, received,
                outputClosed, eventsDoneClosed, crashed, call, hist, mu, pc,
                thrOp, local>>

\* the loop receives an event from the sequence
PipelineReceive ==
    /\ crashed = "no"
    /\ pipeline.state = "running"
    /\ ~pipeline.ended
    /\ pipeline.events < MaxEvents
    /\ pipeline' = [pipeline EXCEPT !.state = "handling", !.events = @ + 1]
    /\ PipelineFrame

\* the loop asks for the refresh of the event it received
PipelineRefresh ==
    /\ crashed = "no"
    /\ pipeline.state = "handling"
    /\ pipeline' = [pipeline EXCEPT !.state = "running", !.refreshes = @ + 1]
    /\ PipelineFrame

\* the loop sees the cancellation handle closed, or the sequence ended,
\* and terminates
PipelineStop ==
    /\ crashed = "no"
    /\ pipeline.state = "running"
    /\ eventsDoneClosed \/ pipeline.ended
    /\ pipeline' = [pipeline EXCEPT !.state = "stopped"]
    /\ PipelineFrame

\* the daemon ends the sequence of events
EventsEnd ==
    /\ crashed = "no"
    /\ ~pipeline.ended
    /\ pipeline' = [pipeline EXCEPT !.ended = TRUE]
    /\ PipelineFrame

NextPipeline ==
    \/ PipelineReceive \/ PipelineRefresh \/ PipelineStop \/ EventsEnd
    \/ Close \/ CallShowMode

\* the task of the loop is scheduled fairly
SpecPipeline ==
    /\ Init
    /\ [][NextPipeline]_vars
    /\ WF_vars(PipelineRefresh)
    /\ SF_vars(PipelineStop)

\* C19: newDry starts the loop once and it runs until it is told to stop;
\* each event it receives asks for one refresh; once Close() has closed
\* dockerEventsDone, or the sequence of events has ended, the loop
\* terminates after finitely many steps, and once terminated it asks for no
\* refresh, receives nothing and does not start again.
C19_EventsRefreshUntilClosed ==
    /\ [](pipeline.refreshes =
             pipeline.events - (IF pipeline.state = "handling" THEN 1 ELSE 0))
    /\ [](pipeline.state = "stopped" => (eventsDoneClosed \/ pipeline.ended))
    /\ [][pipeline.state = "stopped"
            => /\ pipeline'.state = "stopped"
               /\ pipeline'.events = pipeline.events
               /\ pipeline'.refreshes = pipeline.refreshes]_vars
    /\ [][pipeline'.refreshes \in {pipeline.refreshes,
                                    pipeline.refreshes + 1}]_vars
    /\ (eventsDoneClosed \/ pipeline.ended)
          ~> (pipeline.state = "stopped" \/ crashed # "no")

\* Close() has ended the loop, after two events and their two refreshes,
\* with the sequence of events still open
C19_Witness ==
    /\ pipeline.state = "stopped"
    /\ eventsDoneClosed
    /\ ~pipeline.ended
    /\ pipeline.events = 2
    /\ pipeline.refreshes = 2
    /\ crashed = "no"


====
